---- MODULE Spec2Model ----
(***************************************************************************)
(* A model of core/translate/upsert.rs: the ON CONFLICT target resolver,   *)
(* the SET-clause normalizer, the two reference rewrites and the UPSERT    *)
(* emitter together with the execution of the instructions it emits.       *)
(***************************************************************************)
EXTENDS Integers, Sequences, FiniteSets, TLC

VARIABLES
    table,          \* the conflicting table (schema::Table)
    target,         \* upsert.index: NONE, or the sequence of ON CONFLICT target terms
    index,          \* the index handed to upsert_matches_index (schema::Index)
    idx_result,     \* what upsert_matches_index returned: "unset", "true", "false"
    pk_result,      \* what upsert_matches_pk returned: "unset", "true", "false"
    set_items,      \* the SET items handed to collect_set_clauses_for_upsert
    set_result,     \* its Result: "unset", [ok |-> TRUE, out |-> ..] or [ok |-> FALSE, err |-> ..]
    expr0,          \* the expression before any target-row rewrite
    expr,           \* the expression as rewritten in place so far
    passes,         \* the expression after each run of rewrite_target_cols_to_current_row on it
    program,        \* ProgramBuilder: the instructions emitted so far
    next_reg,       \* ProgramBuilder: the next register alloc_registers hands out
    emitted,        \* emit_upsert invocations so far: their register layout
    set_pairs,      \* emit_upsert's set_pairs argument (rewritten in place)
    where_clause,   \* emit_upsert's where_clause argument (rewritten in place)
    env,            \* emit_upsert's remaining arguments and the database the program runs on
    pc,             \* execution: "idle", a program position, "row_done" or "halted"
    regs,           \* execution: register file
    db,             \* execution: table row, index entries, change records, RETURNING rows
    halt            \* execution: the error a Halt raised, or NONE

vars == << table, target, index, idx_result, pk_result, set_items, set_result,
           expr0, expr, passes, program, next_reg, emitted, set_pairs,
           where_clause, env, pc, regs, db, halt >>

matchVars == << target, index, idx_result, pk_result >>
setVars   == << set_items, set_result >>
rwVars    == << expr0, expr, passes >>
emitVars  == << program, next_reg, emitted, set_pairs, where_clause, env >>
execVars  == << pc, regs, db, halt >>

----------------------------------------------------------------------------
(* Option::None of a name or a collation (a string), and of a structured   *)
(* value (a record).                                                       *)
NONE == "None"

NoneRec == [some |-> FALSE]

(* str::to_ascii_lowercase over the strings the model uses.                *)
to_ascii_lowercase(s) ==
    CASE s = "A" -> "a"
      [] s = "B" -> "b"
      [] s = "C" -> "c"
      [] s = "ID" -> "id"
      [] s = "T" -> "t"
      [] s = "ROWID" -> "rowid"
      [] s = "RowId" -> "rowid"
      [] s = "EXCLUDED" -> "excluded"
      [] s = "Binary" -> "binary"
      [] s = "BINARY" -> "binary"
      [] s = "NoCase" -> "nocase"
      [] s = "NOCASE" -> "nocase"
      [] s = "Rtrim" -> "rtrim"
      [] OTHER -> s

eq_ignore_ascii_case(x, y) == to_ascii_lowercase(x) = to_ascii_lowercase(y)

(* util::normalize_ident: the identifier lower-cased (quotes are carried   *)
(* by the Name variant here, not by the string).                           *)
normalize_ident(s) == to_ascii_lowercase(s)

(* CollationSeq, each value written as its Display rendering               *)
(* (c.to_string()): the variant's name.                                    *)
CollationSeq == {"Binary", "NoCase"}

----------------------------------------------------------------------------
(* Schema.  A Column: name, declared collation, flags.                     *)
Col(n, coll, alias, pk, nn) ==
    [name |-> n, collation |-> coll, is_rowid_alias |-> alias,
     primary_key |-> pk, notnull |-> nn]

(* insert::ROWID_COLUMN: the implicit rowid column, which has no name.     *)
ROWID_COLUMN == Col(NONE, NONE, TRUE, TRUE, TRUE)

(* t(id INTEGER PRIMARY KEY, a, b COLLATE NOCASE NOT NULL)                 *)
TableAlias ==
    [name |-> "t", is_strict |-> FALSE,
     columns |-> << Col("id", NONE, TRUE, TRUE, FALSE),
                    Col("a", NONE, FALSE, FALSE, FALSE),
                    Col("b", "NoCase", FALSE, FALSE, TRUE) >>]

(* t(a, b COLLATE NOCASE): no primary key, the rowid is implicit           *)
TableNoPk ==
    [name |-> "t", is_strict |-> FALSE,
     columns |-> << Col("a", NONE, FALSE, FALSE, FALSE),
                    Col("b", "NoCase", FALSE, FALSE, FALSE) >>]

(* t(a COLLATE NOCASE, b TEXT PRIMARY KEY): a primary key that is no alias *)
TableTextPk ==
    [name |-> "t", is_strict |-> FALSE,
     columns |-> << Col("a", "NoCase", FALSE, FALSE, FALSE),
                    Col("b", NONE, FALSE, TRUE, TRUE) >>]

Tables == {TableAlias, TableNoPk, TableTextPk}

(* Table::get_column_by_name: the first column whose name is the           *)
(* normalized name.  Returns its 0-based index, -1 for Option::None.       *)
get_column_by_name(tbl, n) ==
    LET hits == {i \in 1..Len(tbl.columns) :
                    tbl.columns[i].name # NONE
                    /\ tbl.columns[i].name = normalize_ident(n)}
    IN IF hits = {} THEN -1
       ELSE (CHOOSE i \in hits : \A j \in hits : i <= j) - 1

----------------------------------------------------------------------------
(* ast::Expr, the shapes the module tells apart.  nk is the ast::Name      *)
(* variant of a name: "Ident" or "Quoted".                                 *)
Id(s)            == [k |-> "Id", nk |-> "Ident", s |-> s]
QuotedId(s)      == [k |-> "Id", nk |-> "Quoted", s |-> s]
Qualified(q, s)  == [k |-> "Qualified", tbl |-> q, nk |-> "Ident", s |-> s]
QualifiedQuoted(q, s) == [k |-> "Qualified", tbl |-> q, nk |-> "Quoted", s |-> s]
DoublyQualified(d, q, s) ==
    [k |-> "DoublyQualified", db |-> d, tbl |-> q, nk |-> "Ident", s |-> s]
Collate(e, c)    == [k |-> "Collate", e |-> e, nk |-> "Ident", c |-> c]
Parenthesized(v) == [k |-> "Parenthesized", v |-> v]
Literal(x)       == [k |-> "Literal", v |-> x]
Register(r)      == [k |-> "Register", reg |-> r]
RowIdExpr        == [k |-> "RowId"]
Binary(l, op, r) == [k |-> "Binary", l |-> l, op |-> op, r |-> r]
Unary(e)         == [k |-> "Unary", e |-> e]
IsNull(e)        == [k |-> "IsNull", e |-> e]
NotNull(e)       == [k |-> "NotNull", e |-> e]
Cast(e)          == [k |-> "Cast", e |-> e]
Between(l, s, e) == [k |-> "Between", lhs |-> l, start |-> s, end |-> e]
CaseExpr(b, wt, el) ==
    [k |-> "Case", base |-> b, when_then_pairs |-> wt, else_expr |-> el]
FunctionCall(a, ob, f) ==
    [k |-> "FunctionCall", args |-> a, order_by |-> ob, filter_clause |-> f]
InList(l, r)     == [k |-> "InList", lhs |-> l, rhs |-> r]
InSelect(l)      == [k |-> "InSelect", lhs |-> l]
InTable(l)       == [k |-> "InTable", lhs |-> l]
Like(l, r, esc)  == [k |-> "Like", lhs |-> l, rhs |-> r, escape |-> esc]
Exists           == [k |-> "Exists"]

----------------------------------------------------------------------------
(* Conflict-target resolver.                                               *)

(* extract_target_key: Some(ConflictTarget {col_name, collate}) or None.   *)
RECURSIVE extract_target_key(_)
extract_target_key(e) ==
    CASE e.k = "Collate" ->
            LET tk == extract_target_key(e.e)
            IN IF ~tk.some THEN NoneRec
               ELSE IF e.nk # "Ident" THEN NoneRec
               ELSE [some |-> TRUE, col_name |-> tk.col_name,
                     collate |-> to_ascii_lowercase(e.c)]
      [] e.k = "Parenthesized" /\ Len(e.v) = 1 -> extract_target_key(e.v[1])
      [] e.k = "Id" /\ e.nk = "Ident" ->
            [some |-> TRUE, col_name |-> normalize_ident(e.s), collate |-> NONE]
      [] e.k \in {"Qualified", "DoublyQualified"} ->
            IF e.nk # "Ident" THEN NoneRec
            ELSE [some |-> TRUE, col_name |-> normalize_ident(e.s), collate |-> NONE]
      [] OTHER -> NoneRec

(* effective_collation_for_index_col: the index column's own collation as  *)
(* rendered, else the table column's declared collation lower-cased, else  *)
(* "binary".                                                               *)
effective_collation_for_index_col(idx_col, tbl) ==
    IF idx_col.collation # NONE THEN idx_col.collation
    ELSE LET ci == get_column_by_name(tbl, idx_col.name)
         IN IF ci = -1 THEN "binary"
            ELSE IF tbl.columns[ci + 1].collation = NONE THEN "binary"
            ELSE to_ascii_lowercase(tbl.columns[ci + 1].collation)

(* The table's pk column as upsert_matches_pk finds it: the first column   *)
(* flagged is_rowid_alias or primary_key, else ROWID_COLUMN.               *)
PkColumn(tbl) ==
    LET hits == {i \in 1..Len(tbl.columns) :
                    tbl.columns[i].is_rowid_alias \/ tbl.columns[i].primary_key}
    IN IF hits = {} THEN ROWID_COLUMN
       ELSE tbl.columns[CHOOSE i \in hits : \A j \in hits : i <= j]

(* upsert_matches_pk looking at the first target term only, without the    *)
(* check that there is exactly one.                                        *)
upsert_matches_pk_FirstTermOnly(tgt, tbl) ==
    IF ~tgt.some THEN TRUE
    ELSE IF Len(tgt.targets) = 0 THEN FALSE
    ELSE LET pk == PkColumn(tbl)
             tk == extract_target_key(tgt.targets[1])
         IN tk.some
            /\ eq_ignore_ascii_case(tk.col_name,
                                    IF pk.name = NONE THEN "" ELSE pk.name)

(* upsert_matches_pk.  tgt is upsert.index: NoneRec or Some(targets).      *)
upsert_matches_pk(tgt, tbl) ==
    IF ~tgt.some THEN TRUE
    ELSE IF Len(tgt.targets) # 1 THEN FALSE
    ELSE LET pk == PkColumn(tbl)
             tk == extract_target_key(tgt.targets[1])
         IN tk.some
            /\ eq_ignore_ascii_case(tk.col_name,
                                    IF pk.name = NONE THEN "" ELSE pk.name)

(* KeySig of an index column.                                              *)
KeySig(ic, tbl) ==
    [name |-> normalize_ident(ic.name),
     coll |-> effective_collation_for_index_col(ic, tbl)]

(* The multiset `need`: KeySig -> count, over the index's columns.         *)
BuildNeed(idx, tbl) ==
    LET sigs == {KeySig(idx.columns[i], tbl) : i \in 1..Len(idx.columns)}
    IN [s \in sigs |->
          Cardinality({i \in 1..Len(idx.columns) : KeySig(idx.columns[i], tbl) = s})]

(* *cnt -= 1; if *cnt == 0 { need.remove(sig) }                            *)
Consume(need, sig) ==
    IF need[sig] = 1 THEN [s \in (DOMAIN need) \ {sig} |-> need[s]]
    ELSE [need EXCEPT ![sig] = @ - 1]

(* The loop over the target terms.  A term without COLLATE takes the first *)
(* entry of its name in the HashMap's iteration order, which is not        *)
(* specified: every entry of that name is a possible choice.  The result   *)
(* is the set of values the function can return.                           *)
RECURSIVE ConsumeTargets(_, _)
ConsumeTargets(need, terms) ==
    IF terms = << >> THEN {DOMAIN need = {}}
    ELSE LET tk == extract_target_key(Head(terms))
         IN IF ~tk.some THEN {FALSE}
            ELSE IF tk.collate # NONE
            THEN LET sig == [name |-> tk.col_name, coll |-> tk.collate]
                 IN IF sig \in DOMAIN need
                    THEN ConsumeTargets(Consume(need, sig), Tail(terms))
                    ELSE {FALSE}
            ELSE LET cands == {s \in DOMAIN need :
                                  eq_ignore_ascii_case(s.name, tk.col_name)}
                 IN IF cands = {} THEN {FALSE}
                    ELSE UNION {ConsumeTargets(Consume(need, s), Tail(terms)) :
                                   s \in cands}

(* upsert_matches_index without the check that the index is unique.        *)
upsert_matches_index_NoUniqueCheck(tgt, idx, tbl) ==
    IF ~tgt.some THEN {TRUE}
    ELSE IF Len(tgt.targets) # Len(idx.columns) THEN {FALSE}
    ELSE ConsumeTargets(BuildNeed(idx, tbl), tgt.targets)

(* upsert_matches_index: the set of values it can return.                  *)
upsert_matches_index(tgt, idx, tbl) ==
    IF ~tgt.some THEN {TRUE}
    ELSE IF ~idx.unique \/ Len(tgt.targets) # Len(idx.columns) THEN {FALSE}
    ELSE ConsumeTargets(BuildNeed(idx, tbl), tgt.targets)

----------------------------------------------------------------------------
(* The first register of the Insertion's column mapping: the pending row   *)
(* sits in registers InsertionStart .. InsertionStart + num_cols - 1.      *)
InsertionStart == 1

(* The register holding the conflicting row's rowid, which the insert path *)
(* fills before it reaches the upsert, and the first register free after.  *)
ConflictRowidReg(tbl) == InsertionStart + Len(tbl.columns)
FirstFreeReg(tbl)     == ConflictRowidReg(tbl) + 1

(* Inputs of the resolver.                                                 *)
MaxKeyLen == 2

SeqsUpTo(S, n) == UNION {[1..m -> S] : m \in 0..n}

TargetTerms ==
    { Id("a"), Id("B"), DoublyQualified("main", "t", "id"),
      Collate(Id("a"), "NOCASE"), Collate(Id("a"), "binary"),
      Collate(Qualified("t", "b"), "nocase"),
      Parenthesized(<< Collate(Id("ID"), "nocase") >>),
      Id("rowid"),
      QuotedId("b"),
      FunctionCall(<< Id("a") >>, << >>, << >>) }

Targets ==
    {NoneRec} \cup {[some |-> TRUE, targets |-> ts] : ts \in SeqsUpTo(TargetTerms, MaxKeyLen)}

IndexColumns ==
    [name : {"a"}, collation : {NONE} \cup CollationSeq]
    \cup [name : {"b"}, collation : {NONE, "NoCase"}]

(* Unique indexes over every column list; non-unique ones over column a.   *)
Indexes ==
    [unique : {TRUE}, columns : SeqsUpTo(IndexColumns, MaxKeyLen) \ {<< >>}]
    \cup [unique : {FALSE},
          columns : SeqsUpTo({ic \in IndexColumns : ic.name = "a"}, MaxKeyLen) \ {<< >>}]

BoolStr(b) == IF b THEN "true" ELSE "false"

(* Values the variables of the other components hold while one is run.     *)
IdleSet  == set_items = << >> /\ set_result = [state |-> "idle"]
IdleRw   == expr0 = Exists /\ expr = Exists /\ passes = << >>
IdleEmit == /\ program = << >> /\ next_reg = FirstFreeReg(table)
            /\ emitted = << >>
            /\ set_pairs = << >> /\ where_clause = NoneRec /\ env = NoneRec
IdleExec == pc = [at |-> "idle"] /\ regs = << >> /\ db = NoneRec /\ halt = NoneRec

InitMatch ==
    /\ table \in Tables
    /\ target \in Targets
    /\ index \in Indexes
    /\ idx_result = "unset"
    /\ pk_result = "unset"
    /\ IdleSet /\ IdleRw /\ IdleEmit /\ IdleExec

MatchIndex ==
    /\ idx_result = "unset"
    /\ \E r \in upsert_matches_index(target, index, table) :
          idx_result' = BoolStr(r)
    /\ UNCHANGED << table, target, index, pk_result, setVars, rwVars, emitVars, execVars >>

MatchPk ==
    /\ pk_result = "unset"
    /\ pk_result' = BoolStr(upsert_matches_pk(target, table))
    /\ UNCHANGED << table, target, index, idx_result, setVars, rwVars, emitVars, execVars >>

NextMatch == MatchIndex \/ MatchPk

SpecMatch == InitMatch /\ [][NextMatch]_vars

----------------------------------------------------------------------------
(* Reference rewriter, EXCLUDED pass.                                      *)

(* Insertion::get_col_mapping_by_name(name).register                       *)
get_col_mapping_by_name(tbl, n) == InsertionStart + get_column_by_name(tbl, n)

(* rewrite_excluded_in_expr: the expression with every EXCLUDED.x replaced *)
(* by the register of x in the insertion.                                  *)
RECURSIVE rewrite_excluded_in_expr(_, _)
rewrite_excluded_in_expr(e, tbl) ==
    LET R(x) == rewrite_excluded_in_expr(x, tbl)
        RS(v) == [i \in 1..Len(v) |-> rewrite_excluded_in_expr(v[i], tbl)]
    IN
    CASE e.k = "Qualified" /\ eq_ignore_ascii_case(e.tbl, "excluded") ->
            IF e.nk # "Ident" THEN e
            ELSE Register(get_col_mapping_by_name(tbl, e.s))
      [] e.k = "Collate" -> [e EXCEPT !.e = R(@)]
      [] e.k = "Parenthesized" -> [e EXCEPT !.v = RS(@)]
      [] e.k = "Between" ->
            [e EXCEPT !.lhs = R(@), !.start = R(@), !.end = R(@)]
      [] e.k = "Binary" -> [e EXCEPT !.l = R(@), !.r = R(@)]
      [] e.k = "Case" ->
            [e EXCEPT !.base = RS(@),
                      !.when_then_pairs =
                          [i \in 1..Len(@) |-> << R(@[i][1]), R(@[i][2]) >>],
                      !.else_expr = RS(@)]
      [] e.k = "Cast" -> [e EXCEPT !.e = R(@)]
      [] e.k = "FunctionCall" ->
            [e EXCEPT !.args = RS(@), !.order_by = RS(@), !.filter_clause = RS(@)]
      [] e.k = "InList" -> [e EXCEPT !.lhs = R(@), !.rhs = RS(@)]
      [] e.k \in {"InSelect", "InTable"} -> [e EXCEPT !.lhs = R(@)]
      [] e.k \in {"IsNull", "NotNull", "Unary"} -> [e EXCEPT !.e = R(@)]
      [] e.k = "Like" ->
            [e EXCEPT !.lhs = R(@), !.rhs = R(@), !.escape = RS(@)]
      [] OTHER -> e

----------------------------------------------------------------------------
(* Reference rewriter, target-row pass.                                    *)

(* col_reg without the test for the name rowid: the pseudo-column is       *)
(* looked up as a column like any other.                                   *)
col_reg_NoRowidName(tbl, current_start, conflict_rowid_reg, n) ==
    LET idx == get_column_by_name(tbl, normalize_ident(n))
    IN IF idx = -1 THEN -1 ELSE current_start + idx

(* The closure col_reg: the register of a column name, -1 for None.        *)
col_reg(tbl, current_start, conflict_rowid_reg, n) ==
    IF eq_ignore_ascii_case(n, "rowid") THEN conflict_rowid_reg
    ELSE LET idx == get_column_by_name(tbl, normalize_ident(n))
         IN IF idx = -1 THEN -1
            ELSE IF tbl.columns[idx + 1].is_rowid_alias
            THEN current_start + idx
            ELSE current_start + idx

(* The tbl.col arm dropping the qualifier of a target-table reference      *)
(* instead of resolving it, which leaves the bare name to a later pass.    *)
RewriteQualified_DropQualifier(e, tbl, current_start, conflict_rowid_reg) ==
    IF ~eq_ignore_ascii_case(e.tbl, "excluded") /\ eq_ignore_ascii_case(e.tbl, tbl.name)
    THEN IF e.nk = "Ident" THEN Id(e.s) ELSE e
    ELSE e

(* The tbl.col arm: rewritten only if the qualifier names this table.      *)
RewriteQualified(e, tbl, current_start, conflict_rowid_reg) ==
    IF ~eq_ignore_ascii_case(e.tbl, "excluded") /\ eq_ignore_ascii_case(e.tbl, tbl.name)
    THEN IF e.nk = "Ident"
         THEN LET reg == col_reg(tbl, current_start, conflict_rowid_reg, e.s)
              IN IF reg # -1 THEN Register(reg) ELSE e
         ELSE e
    ELSE e

(* The bare identifier arm.                                                *)
RewriteId(e, tbl, current_start, conflict_rowid_reg) ==
    LET reg == col_reg(tbl, current_start, conflict_rowid_reg, e.s)
    IN IF reg # -1 THEN Register(reg) ELSE e

(* rewrite_target_cols_to_current_row                                      *)
RECURSIVE rewrite_target_cols_to_current_row(_, _, _, _)
rewrite_target_cols_to_current_row(e, tbl, current_start, conflict_rowid_reg) ==
    LET R(x) == rewrite_target_cols_to_current_row(x, tbl, current_start,
                                                   conflict_rowid_reg)
        RS(v) == [i \in 1..Len(v) |->
                     rewrite_target_cols_to_current_row(v[i], tbl, current_start,
                                                        conflict_rowid_reg)]
    IN
    CASE e.k = "Qualified" -> RewriteQualified(e, tbl, current_start, conflict_rowid_reg)
      [] e.k = "Id" /\ e.nk = "Ident" ->
            RewriteId(e, tbl, current_start, conflict_rowid_reg)
      [] e.k = "RowId" -> Register(conflict_rowid_reg)
      [] e.k = "Collate" -> [e EXCEPT !.e = R(@)]
      [] e.k = "Parenthesized" -> [e EXCEPT !.v = RS(@)]
      [] e.k = "Between" ->
            [e EXCEPT !.lhs = R(@), !.start = R(@), !.end = R(@)]
      [] e.k = "Binary" -> [e EXCEPT !.l = R(@), !.r = R(@)]
      [] e.k = "Case" ->
            [e EXCEPT !.base = RS(@),
                      !.when_then_pairs =
                          [i \in 1..Len(@) |-> << R(@[i][1]), R(@[i][2]) >>],
                      !.else_expr = RS(@)]
      [] e.k = "Cast" -> [e EXCEPT !.e = R(@)]
      [] e.k = "FunctionCall" ->
            [e EXCEPT !.args = RS(@), !.order_by = RS(@), !.filter_clause = RS(@)]
      [] e.k = "InList" -> [e EXCEPT !.lhs = R(@), !.rhs = RS(@)]
      [] e.k \in {"InSelect", "InTable"} -> [e EXCEPT !.lhs = R(@)]
      [] e.k \in {"IsNull", "NotNull", "Unary"} -> [e EXCEPT !.e = R(@)]
      [] e.k = "Like" ->
            [e EXCEPT !.lhs = R(@), !.rhs = R(@), !.escape = RS(@)]
      [] OTHER -> e

----------------------------------------------------------------------------
(* SET-clause normalizer.                                                  *)

(* lookup: lower-cased column name -> 0-based index (-1: not in the map).  *)
(* Unnamed columns are left out; of two equal names the later one stays.   *)
Lookup(tbl, key) ==
    LET hits == {i \in 1..Len(tbl.columns) :
                    tbl.columns[i].name # NONE
                    /\ to_ascii_lowercase(tbl.columns[i].name) = key}
    IN IF hits = {} THEN -1
       ELSE (CHOOSE i \in hits : \A j \in hits : j <= i) - 1

(* values: a parenthesized right-hand side is its list, any other is one   *)
(* value.                                                                  *)
SetValues(set) ==
    IF set.expr.k = "Parenthesized" THEN set.expr.v ELSE << set.expr >>

SetOk(out)  == [state |-> "ok", out |-> out]
SetErr(msg) == [state |-> "err", msg |-> msg]

(* `out` with the first pair of every column put back instead of being     *)
(* overwritten: the first assignment wins.                                 *)
PutPair_FirstWins(out, idx, e) ==
    IF \E i \in 1..Len(out) : out[i].idx = idx THEN out
    ELSE Append(out, [idx |-> idx, e |-> e])

(* "last one wins": overwrite the pair of idx where it stands, else push.  *)
PutPair(out, idx, e) ==
    IF \E i \in 1..Len(out) : out[i].idx = idx
    THEN [i \in 1..Len(out) |->
            IF out[i].idx = idx THEN [idx |-> idx, e |-> e] ELSE out[i]]
    ELSE Append(out, [idx |-> idx, e |-> e])

(* The zip over one SET item's (column name, value) pairs.                 *)
RECURSIVE CollectPairs(_, _, _, _)
CollectPairs(tbl, names, values, out) ==
    IF names = << >> THEN SetOk(out)
    ELSE LET e   == rewrite_excluded_in_expr(Head(values), tbl)
             idx == Lookup(tbl, normalize_ident(Head(names)))
         IN IF idx = -1
            THEN SetErr([kind |-> "no such column", name |-> Head(names)])
            ELSE CollectPairs(tbl, Tail(names), Tail(values), PutPair(out, idx, e))

(* The loop over the SET items, skipping a missing column instead of       *)
(* failing on it.                                                          *)
RECURSIVE CollectItems_SkipBad(_, _, _)
CollectItems_SkipBad(tbl, items, out) ==
    IF items = << >> THEN SetOk(out)
    ELSE LET set    == Head(items)
             values == SetValues(set)
             n      == IF Len(values) < Len(set.col_names)
                       THEN Len(values) ELSE Len(set.col_names)
             r      == CollectPairs(tbl, SubSeq(set.col_names, 1, n),
                                    SubSeq(values, 1, n), out)
         IN CollectItems_SkipBad(tbl, Tail(items),
                                 IF r.state = "ok" THEN r.out ELSE out)

(* The loop over the SET items.                                            *)
RECURSIVE CollectItems(_, _, _)
CollectItems(tbl, items, out) ==
    IF items = << >> THEN SetOk(out)
    ELSE LET set    == Head(items)
             values == SetValues(set)
         IN IF Len(set.col_names) # Len(values)
            THEN SetErr([kind |-> "columns assigned values",
                         cols |-> Len(set.col_names), values |-> Len(values)])
            ELSE LET r == CollectPairs(tbl, set.col_names, values, out)
                 IN IF r.state = "err" THEN r
                    ELSE CollectItems(tbl, Tail(items), r.out)

(* collect_set_clauses_for_upsert                                          *)
collect_set_clauses_for_upsert(tbl, items) == CollectItems(tbl, items, << >>)

(* Inputs of the normalizer.                                               *)
MaxSetItems == 2

ColNameLists ==
    { << "a" >>, << "B" >>, << "zz" >>,
      << "a", "b" >>, << "b", "A" >>, << "a", "zz" >> }

SetRhs ==
    { Literal("1"), Literal("2"),
      Qualified("excluded", "a"),
      Binary(Qualified("EXCLUDED", "b"), "Concat", Id("a")),
      Parenthesized(<< Literal("2") >>),
      Parenthesized(<< Literal("1"), Literal("2") >>),
      Parenthesized(<< Qualified("excluded", "b"), Id("b") >>),
      Parenthesized(<< Literal("1"), Literal("2"), Literal("1") >>) }

SetItems == [col_names : ColNameLists, expr : SetRhs]

InitSet ==
    /\ table \in {TableAlias, TableNoPk}
    /\ set_items \in SeqsUpTo(SetItems, MaxSetItems)
    /\ set_result = [state |-> "unset"]
    /\ target = NoneRec /\ index = NoneRec
    /\ idx_result = "unset" /\ pk_result = "unset"
    /\ IdleRw /\ IdleEmit /\ IdleExec

CollectSetClauses ==
    /\ set_result.state = "unset"
    /\ set_result' = collect_set_clauses_for_upsert(table, set_items)
    /\ UNCHANGED << table, matchVars, set_items, rwVars, emitVars, execVars >>

NextSet == CollectSetClauses

SpecSet == InitSet /\ [][NextSet]_vars

----------------------------------------------------------------------------
(* UPSERT emitter.  A builder is [program, next_reg].                      *)

emit_insn(b, insn)    == [b EXCEPT !.program = Append(@, insn)]
emit_insns(b, insns)  == [b EXCEPT !.program = @ \o insns]
alloc_registers(b, n) == [b EXCEPT !.next_reg = @ + n]

(* The per-row completion label the caller passes in.                      *)
row_done_label == "row_done"

SQLITE_CONSTRAINT_NOTNULL == "SQLITE_CONSTRAINT_NOTNULL"

CopyInsn(src, dst, extra) ==
    [op |-> "Copy", src_reg |-> src, dst_reg |-> dst, extra_amount |-> extra]

MakeRecordInsn(start, count, dest, index_name) ==
    [op |-> "MakeRecord", start_reg |-> start, count |-> count, dest_reg |-> dest,
     index_name |-> index_name]

(* translate_expr / translate_expr_no_constant_opt: the code that computes *)
(* the expression into dest, as one step.                                  *)
translate_expr(b, e, dest) == emit_insn(b, [op |-> "Expr", expr |-> e, dest |-> dest])

(* Seek by the conflict rowid.                                             *)
SeekInsn(e) ==
    [op |-> "SeekRowid", cursor_id |-> e.tbl_cursor_id,
     src_reg |-> e.conflict_rowid_reg, target_pc |-> row_done_label]

(* The snapshot of the current row, one instruction per column.            *)
SnapshotInsns(tbl, e, current_start) ==
    [i \in 1..Len(tbl.columns) |->
        IF tbl.columns[i].is_rowid_alias
        THEN [op |-> "RowId", cursor_id |-> e.tbl_cursor_id,
              dest |-> current_start + (i - 1)]
        ELSE [op |-> "Column", cursor_id |-> e.tbl_cursor_id, column |-> i - 1,
              dest |-> current_start + (i - 1)]]

(* The WHERE guard's branch, not taken on null.                            *)
WhereGuard_NoJumpOnNull(pr) ==
    [op |-> "IfNot", reg |-> pr, target_pc |-> row_done_label, jump_if_null |-> FALSE]

(* The WHERE guard's branch.                                               *)
WhereGuard(pr) ==
    [op |-> "IfNot", reg |-> pr, target_pc |-> row_done_label, jump_if_null |-> TRUE]

(* The NOT NULL check of a SET column, looking at the first register of    *)
(* the new image instead of the column's.                                  *)
NotNullCheck_WrongRegister(tbl, col_idx, new_start) ==
    [op |-> "HaltIfNull", target_reg |-> new_start,
     err_code |-> SQLITE_CONSTRAINT_NOTNULL,
     description |-> << tbl.name, tbl.columns[col_idx + 1].name >>]

(* The NOT NULL check of a SET column; description is "table.column".      *)
NotNullCheck(tbl, col_idx, new_start) ==
    [op |-> "HaltIfNull", target_reg |-> new_start + col_idx,
     err_code |-> SQLITE_CONSTRAINT_NOTNULL,
     description |-> << tbl.name, tbl.columns[col_idx + 1].name >>]

(* The loop applying SET: pairs are already rewritten.                     *)
RECURSIVE EmitSet(_, _, _, _)
EmitSet(b, tbl, pairs, new_start) ==
    IF pairs = << >> THEN b
    ELSE LET col_idx == Head(pairs).idx
             col     == tbl.columns[col_idx + 1]
             b1      == translate_expr(b, Head(pairs).e, new_start + col_idx)
             b2      == IF col.notnull /\ ~col.is_rowid_alias
                        THEN emit_insn(b1, NotNullCheck(tbl, col_idx, new_start))
                        ELSE b1
         IN EmitSet(b2, tbl, Tail(pairs), new_start)

(* One index's rewrite with the inserted key built from BEFORE, as the     *)
(* deleted one is.                                                         *)
EmitIndexRewrite_InsertFromBefore(b, tbl, e, ic, before, new_start) ==
    LET k   == Len(ic.columns)
        del == b.next_reg
        ins == b.next_reg + (k + 1)
        rec == b.next_reg + (k + 1) + (k + 1)
    IN emit_insns(alloc_registers(b, (k + 1) + (k + 1) + 1),
           [i \in 1..k |->
               CopyInsn(before + get_column_by_name(tbl, ic.columns[i].name),
                        del + (i - 1), 0)]
           \o << CopyInsn(e.conflict_rowid_reg, del + k, 0),
                 [op |-> "IdxDelete", start_reg |-> del, num_regs |-> k + 1,
                  cursor_id |-> ic.cursor_id,
                  raise_error_if_no_matching_entry |-> FALSE] >>
           \o [i \in 1..k |->
                  CopyInsn(before + get_column_by_name(tbl, ic.columns[i].name),
                           ins + (i - 1), 0)]
           \o << CopyInsn(e.conflict_rowid_reg, ins + k, 0),
                 MakeRecordInsn(ins, k + 1, rec, ic.name),
                 [op |-> "IdxInsert", cursor_id |-> ic.cursor_id,
                  record_reg |-> rec, unpacked_start |-> ins,
                  unpacked_count |-> k + 1] >>)

(* One index's rewrite: delete the key built from BEFORE, insert the key   *)
(* built from NEW.  ic is one entry of idx_cursors with the index's        *)
(* columns as schema.get_index gives them.                                 *)
EmitIndexRewrite(b, tbl, e, ic, before, new_start) ==
    LET k   == Len(ic.columns)
        \* let del = program.alloc_registers(k + 1)
        del == b.next_reg
        \* let ins = program.alloc_registers(k + 1)
        ins == b.next_reg + (k + 1)
        \* let rec = program.alloc_register()
        rec == b.next_reg + (k + 1) + (k + 1)
    IN emit_insns(alloc_registers(b, (k + 1) + (k + 1) + 1),
           [i \in 1..k |->
               CopyInsn(before + get_column_by_name(tbl, ic.columns[i].name),
                        del + (i - 1), 0)]
           \o << CopyInsn(e.conflict_rowid_reg, del + k, 0),
                 [op |-> "IdxDelete", start_reg |-> del, num_regs |-> k + 1,
                  cursor_id |-> ic.cursor_id,
                  raise_error_if_no_matching_entry |-> FALSE] >>
           \o [i \in 1..k |->
                  CopyInsn(new_start + get_column_by_name(tbl, ic.columns[i].name),
                           ins + (i - 1), 0)]
           \o << CopyInsn(e.conflict_rowid_reg, ins + k, 0),
                 MakeRecordInsn(ins, k + 1, rec, ic.name),
                 [op |-> "IdxInsert", cursor_id |-> ic.cursor_id,
                  record_reg |-> rec, unpacked_start |-> ins,
                  unpacked_count |-> k + 1] >>)

RECURSIVE EmitIndexes(_, _, _, _, _, _)
EmitIndexes(b, tbl, e, ics, before, new_start) ==
    IF ics = << >> THEN b
    ELSE EmitIndexes(EmitIndexRewrite(b, tbl, e, Head(ics), before, new_start),
                     tbl, e, Tail(ics), before, new_start)

(* emitter::emit_cdc_patch_record: the after-image, the new record with    *)
(* the rowid-alias column taken from the rowid register.  Returns          *)
(* [b, reg].                                                               *)
emit_cdc_patch_record(b, tbl, columns_reg, record_reg, rowid_reg) ==
    LET dest == b.next_reg
    IN [b |-> emit_insn(alloc_registers(b, 1),
                 [op |-> "CdcPatchRecord", columns_reg |-> columns_reg,
                  count |-> Len(tbl.columns), rowid_reg |-> rowid_reg,
                  dest_reg |-> dest]),
        reg |-> dest]

(* emitter::emit_cdc_full_record: the row read through the table cursor    *)
(* into fresh registers and made a record.  Returns [b, reg].              *)
emit_cdc_full_record(b, tbl, cursor_id, rowid_reg) ==
    LET n     == Len(tbl.columns)
        start == b.next_reg
        b1    == alloc_registers(b, n + 1)
        b2    == emit_insns(b1,
                    [i \in 1..n |->
                        IF tbl.columns[i].is_rowid_alias
                        THEN CopyInsn(rowid_reg, start + (i - 1), 0)
                        ELSE [op |-> "Column", cursor_id |-> cursor_id,
                              column |-> i - 1, dest |-> start + (i - 1)]])
    IN [b |-> emit_insn(b2, MakeRecordInsn(start, n, start + n, NONE)),
        reg |-> start + n]

(* emitter::emit_cdc_insns: one change record.                             *)
emit_cdc_insns(b, mode, cdc_id, rowid_reg, before_rec, after_rec, table_name) ==
    emit_insn(b, [op |-> "CdcInsert", cursor_id |-> cdc_id, mode |-> mode,
                  rowid_reg |-> rowid_reg, before_rec |-> before_rec,
                  after_rec |-> after_rec, table_name |-> table_name])

(* expr::emit_returning_results                                            *)
emit_returning_results(b, regs3) == emit_insn(b, [op |-> "ResultRow"] @@ regs3)

----------------------------------------------------------------------------
(* Inputs of the target-row rewrite.                                       *)
MaxPasses == 2

RefLeaves ==
    { Id("a"), Id("ID"), Id("rowid"), Id("zz"), QuotedId("a"),
      Qualified("T", "b"), Qualified("t", "id"), Qualified("t", "ROWID"),
      Qualified("t", "zz"), Qualified("excluded", "a"), Qualified("other", "a"),
      QualifiedQuoted("t", "a"), DoublyQualified("main", "t", "a"),
      RowIdExpr, Register(2), Literal("1"), Exists }

FewLeaves == { Id("b"), Qualified("t", "id"), RowIdExpr, Register(2) }
TwoLeaves == { Id("ID"), Qualified("excluded", "a") }
OptOf(S)  == {<< >>} \cup {<< x >> : x \in S}

CompositeExprs ==
    {Collate(x, "nocase") : x \in RefLeaves}
    \cup {Cast(x) : x \in RefLeaves}
    \cup {IsNull(x) : x \in RefLeaves}
    \cup {NotNull(x) : x \in RefLeaves}
    \cup {Unary(x) : x \in RefLeaves}
    \cup {InSelect(x) : x \in RefLeaves}
    \cup {InTable(x) : x \in RefLeaves}
    \cup {Binary(x, "Ne", y) : x \in FewLeaves, y \in FewLeaves}
    \cup {Between(x, y, z) : x \in FewLeaves, y \in TwoLeaves, z \in TwoLeaves}
    \cup {Parenthesized(v) : v \in SeqsUpTo(FewLeaves, 2)}
    \cup {CaseExpr(b, << << w, t >> >>, el) :
             b \in OptOf(TwoLeaves), w \in TwoLeaves, t \in TwoLeaves,
             el \in OptOf(TwoLeaves)}
    \cup {FunctionCall(<< a >>, ob, f) :
             a \in FewLeaves, ob \in OptOf(TwoLeaves), f \in OptOf(TwoLeaves)}
    \cup {InList(x, << y >>) : x \in FewLeaves, y \in TwoLeaves}
    \cup {Like(x, y, esc) : x \in FewLeaves, y \in TwoLeaves, esc \in OptOf(TwoLeaves)}

NestedExprs ==
    {Binary(Cast(x), "Concat", Parenthesized(<< Collate(y, "nocase") >>)) :
        x \in RefLeaves, y \in FewLeaves}

RewriteExprs == RefLeaves \cup CompositeExprs \cup NestedExprs

(* (current_start, conflict_rowid_reg) as emit_upsert passes them on.      *)
RewriteEnvs ==
    { [current_start |-> 10, conflict_rowid_reg |-> 4],
      [current_start |-> 20, conflict_rowid_reg |-> 7] }

InitRewrite ==
    /\ table \in Tables
    /\ expr0 \in RewriteExprs
    /\ expr = expr0
    /\ passes = << >>
    /\ env \in RewriteEnvs
    /\ target = NoneRec /\ index = NoneRec
    /\ idx_result = "unset" /\ pk_result = "unset"
    /\ IdleSet
    /\ program = << >> /\ next_reg = FirstFreeReg(table)
    /\ emitted = << >> /\ set_pairs = << >> /\ where_clause = NoneRec
    /\ IdleExec

RewriteTarget ==
    /\ Len(passes) < MaxPasses
    /\ expr' = rewrite_target_cols_to_current_row(expr, table, env.current_start,
                                                  env.conflict_rowid_reg)
    /\ passes' = Append(passes, expr')
    /\ UNCHANGED << table, matchVars, setVars, expr0, emitVars, execVars >>

NextRewrite == RewriteTarget

SpecRewrite == InitRewrite /\ [][NextRewrite]_vars

----------------------------------------------------------------------------
(* Execution of the emitted instructions.  A value is a scalar, [v |-> x], *)
(* or a record made by MakeRecord, [rec |-> <<values>>].                   *)
V(x)   == [v |-> x]
NULL   == V("NULL")
Rec(f) == [rec |-> f]

Truth(b) == IF b THEN V("1") ELSE V("0")

(* The value the code emitted by translate_expr leaves in its destination. *)
RECURSIVE Eval(_, _)
Eval(e, r) ==
    CASE e.k = "Literal" -> V(e.v)
      [] e.k = "Register" -> r[e.reg]
      [] e.k = "Parenthesized" -> Eval(e.v[1], r)
      [] e.k = "IsNull" -> Truth(Eval(e.e, r) = NULL)
      [] e.k = "NotNull" -> Truth(Eval(e.e, r) # NULL)
      [] e.k = "Binary" ->
            LET x == Eval(e.l, r)
                y == Eval(e.r, r)
            IN IF x = NULL \/ y = NULL THEN NULL
               ELSE IF e.op = "Ne" THEN Truth(x # y)
               ELSE Truth(x = y)
      [] OTHER -> NULL

RegRange(r, start, count) == [i \in 1..count |-> r[start + (i - 1)]]

Falls(st)     == [st EXCEPT !.pc = [at |-> "insn", i |-> st.pc.i + 1]]
Jumps(st, to) == [st EXCEPT !.pc = [at |-> to]]
Halts(st, err) ==
    [st EXCEPT !.pc = [at |-> "halted"], !.halt = [some |-> TRUE] @@ err]
Logs(st, what) == [st EXCEPT !.db.log = Append(@, what)]

(* One instruction on the machine state st = [pc, regs, db, halt].         *)
Execute(ins, st) ==
    LET r == st.regs
    IN
    CASE ins.op = "SeekRowid" ->
            IF st.db.row.some /\ st.db.row.rowid = r[ins.src_reg]
            THEN Falls(st) ELSE Jumps(st, ins.target_pc)
      [] ins.op = "RowId" ->
            Falls([st EXCEPT !.regs[ins.dest] = st.db.row.rowid])
      [] ins.op = "Column" ->
            Falls([st EXCEPT !.regs[ins.dest] = st.db.row.vals[ins.column + 1]])
      [] ins.op = "Copy" ->
            Falls([st EXCEPT !.regs =
                      [x \in DOMAIN r |->
                          IF x >= ins.dst_reg /\ x <= ins.dst_reg + ins.extra_amount
                          THEN r[ins.src_reg + (x - ins.dst_reg)] ELSE r[x]]])
      [] ins.op = "Expr" ->
            Falls([st EXCEPT !.regs[ins.dest] = Eval(ins.expr, r)])
      [] ins.op = "IfNot" ->
            IF r[ins.reg] = NULL
            THEN (IF ins.jump_if_null THEN Jumps(st, ins.target_pc) ELSE Falls(st))
            ELSE IF r[ins.reg] = V("0") THEN Jumps(st, ins.target_pc) ELSE Falls(st)
      [] ins.op = "HaltIfNull" ->
            IF r[ins.target_reg] = NULL
            THEN Halts(st, [err_code |-> ins.err_code, description |-> ins.description])
            ELSE Falls(st)
      [] ins.op = "TypeCheck" ->
            IF \E i \in 1..ins.count : r[ins.start_reg + (i - 1)] = V("x")
            THEN Halts(st, [err_code |-> "SQLITE_CONSTRAINT_DATATYPE",
                            description |-> << >>])
            ELSE Falls(st)
      [] ins.op = "MakeRecord" ->
            Falls([st EXCEPT !.regs[ins.dest_reg] =
                                 Rec(RegRange(r, ins.start_reg, ins.count))])
      [] ins.op = "IdxDelete" ->
            LET key == RegRange(r, ins.start_reg, ins.num_regs)
            IN IF key \notin st.db.idx[ins.cursor_id]
                  /\ ins.raise_error_if_no_matching_entry
               THEN Halts(st, [err_code |-> "SQLITE_CORRUPT", description |-> << >>])
               ELSE Falls(Logs([st EXCEPT !.db.idx[ins.cursor_id] = @ \ {key}],
                               [op |-> "IdxDelete", cursor_id |-> ins.cursor_id,
                                key |-> key]))
      [] ins.op = "IdxInsert" ->
            Falls(Logs([st EXCEPT !.db.idx[ins.cursor_id] =
                                      @ \cup {r[ins.record_reg].rec}],
                       [op |-> "IdxInsert", cursor_id |-> ins.cursor_id,
                        key |-> r[ins.record_reg].rec]))
      [] ins.op = "Insert" ->
            Falls(Logs([st EXCEPT !.db.row =
                                      [some |-> TRUE, rowid |-> r[ins.key_reg],
                                       vals |-> r[ins.record_reg].rec]],
                       [op |-> "Insert", rowid |-> r[ins.key_reg],
                        vals |-> r[ins.record_reg].rec]))
      [] ins.op = "CdcPatchRecord" ->
            Falls([st EXCEPT !.regs[ins.dest_reg] =
                                 Rec(RegRange(r, ins.columns_reg, ins.count))])
      [] ins.op = "CdcInsert" ->
            LET change == [op |-> "CdcInsert", mode |-> ins.mode,
                           rowid |-> r[ins.rowid_reg],
                           before |-> IF ins.before_rec = -1 THEN NoneRec
                                      ELSE r[ins.before_rec],
                           after |-> IF ins.after_rec = -1 THEN NoneRec
                                     ELSE r[ins.after_rec]]
            IN Falls(Logs([st EXCEPT !.db.cdc = Append(@, change)], change))
      [] ins.op = "ResultRow" ->
            LET row == [op |-> "ResultRow", rowid |-> r[ins.rowid_register],
                        vals |-> RegRange(r, ins.columns_start_register,
                                          ins.num_columns)]
            IN Falls(Logs([st EXCEPT !.db.out = Append(@, row)], row))
      [] ins.op = "Goto" -> Jumps(st, ins.target_pc)

----------------------------------------------------------------------------
(* Inputs of the emitter and of the execution.                             *)
MaxInvocations == 2

(* t(id INTEGER PRIMARY KEY, a, b NOT NULL) STRICT                         *)
TableStrict == [TableAlias EXCEPT !.is_strict = TRUE]

(* The SET lists of the statements compiled.                               *)
EmitSetLists ==
    { << [col_names |-> << "a" >>, expr |-> Qualified("excluded", "a")] >>,
      << [col_names |-> << "a" >>, expr |-> Id("b")],
         [col_names |-> << "b" >>, expr |-> Id("a")] >>,
      << [col_names |-> << "b" >>, expr |-> Literal("NULL")] >>,
      << [col_names |-> << "a", "b" >>,
          expr |-> Parenthesized(<< Qualified("t", "id"), Qualified("excluded", "b") >>)] >>,
      << [col_names |-> << "a" >>, expr |-> Literal("x")],
         [col_names |-> << "b" >>, expr |-> Id("rowid")] >> }

EmitWheres ==
    { Binary(Qualified("t", "a"), "Ne", Qualified("excluded", "a")),
      Id("a") }

(* idx_cursors, each with the columns schema.get_index returns for it.     *)
IdxCursorLists ==
    { << >>,
      << [name |-> "idx_b", cursor_id |-> 1,
          columns |-> << [name |-> "b", collation |-> NONE] >>] >>,
      << [name |-> "idx_a", cursor_id |-> 1,
          columns |-> << [name |-> "a", collation |-> NONE] >>],
         [name |-> "idx_ba", cursor_id |-> 2,
          columns |-> << [name |-> "b", collation |-> NONE],
                         [name |-> "a", collation |-> NONE] >>] >> }

CdcModes ==
    { NoneRec,
      [some |-> TRUE, cursor_id |-> 9, has_before |-> TRUE, has_after |-> TRUE],
      [some |-> TRUE, cursor_id |-> 9, has_before |-> FALSE, has_after |-> FALSE] }

(* The row about to be inserted (EXCLUDED) and the conflicting rowid.      *)
ExcludedRows == { << V("5"), V("0"), V("1") >>, << V("5"), V("1"), NULL >> }
ConflictRowid == V("5")

(* The conflicting row as stored, or no row (it is gone by the time the    *)
(* upsert runs).                                                           *)
StoredRows ==
    {NoneRec}
    \cup {[some |-> TRUE, rowid |-> ConflictRowid, vals |-> << NULL, a, b >>] :
             a \in {NULL, V("0"), V("1")}, b \in {V("0"), V("1")}}

(* The value of column i (0-based) of a stored row.                        *)
RowValue(tbl, row, i) ==
    IF tbl.columns[i + 1].is_rowid_alias THEN row.rowid ELSE row.vals[i + 1]

(* The index entry of a stored row: the key columns, then the rowid.       *)
IndexKey(tbl, ic, row) ==
    [i \in 1..Len(ic.columns) |->
        RowValue(tbl, row, get_column_by_name(tbl, ic.columns[i].name))]
    \o << row.rowid >>

(* The indexes as they stand when the conflict is found.                   *)
IndexesOf(tbl, ics, row) ==
    [c \in {ics[i].cursor_id : i \in 1..Len(ics)} |->
        IF row.some
        THEN {IndexKey(tbl, ics[CHOOSE i \in 1..Len(ics) : ics[i].cursor_id = c], row)}
        ELSE {}]

InitEmit ==
    /\ table \in {TableAlias, TableStrict}
    /\ \E items \in EmitSetLists :
          set_pairs = collect_set_clauses_for_upsert(table, items).out
    /\ where_clause \in
          {NoneRec} \cup {[some |-> TRUE, e |-> rewrite_excluded_in_expr(w, table)] :
                             w \in EmitWheres}
    /\ env \in [tbl_cursor_id : {0},
                conflict_rowid_reg : {ConflictRowidReg(table)},
                idx_cursors : IdxCursorLists,
                returning : BOOLEAN,
                cdc : CdcModes,
                excluded : ExcludedRows]
    /\ \E row \in StoredRows :
          db = [row |-> row, idx |-> IndexesOf(table, env.idx_cursors, row),
                cdc |-> << >>, out |-> << >>, log |-> << >>]
    /\ program = << >> /\ next_reg = FirstFreeReg(table) /\ emitted = << >>
    /\ pc = [at |-> "idle"] /\ regs = << >> /\ halt = NoneRec
    /\ target = NoneRec /\ index = NoneRec
    /\ idx_result = "unset" /\ pk_result = "unset"
    /\ IdleSet /\ IdleRw

(* emit_upsert, called once by the statement compiler.  env holds the      *)
(* arguments that are neither the builder, the table nor the two in-place  *)
(* arguments: tbl_cursor_id, conflict_rowid_reg, idx_cursors, returning,   *)
(* cdc.  Each \E names one intermediate value of the function body.        *)
EmitUpsert ==
    /\ pc.at = "idle"
    /\ Len(emitted) < MaxInvocations
    /\ \E num_cols \in {Len(table.columns)} :
       \E b1 \in {emit_insn([program |-> program, next_reg |-> next_reg],
                            SeekInsn(env))} :
       \E current_start \in {b1.next_reg} :
       \E b2 \in {emit_insns(alloc_registers(b1, num_cols),
                             SnapshotInsns(table, env, current_start))} :
       \E keep_before \in {env.cdc.some \/ env.idx_cursors # << >>} :
       \E before_start \in {IF keep_before THEN b2.next_reg ELSE -1} :
       \E b3 \in {IF keep_before
                  THEN emit_insn(alloc_registers(b2, num_cols),
                                 CopyInsn(current_start, before_start, num_cols - 1))
                  ELSE b2} :
       \E new_start \in {b3.next_reg} :
       \E b4 \in {emit_insn(alloc_registers(b3, num_cols),
                            CopyInsn(current_start, new_start, num_cols - 1))} :
       \E wc1 \in {IF where_clause.some
                   THEN [where_clause EXCEPT !.e =
                            rewrite_target_cols_to_current_row(
                                @, table, current_start, env.conflict_rowid_reg)]
                   ELSE where_clause} :
       \E b5 \in {IF where_clause.some
                  THEN emit_insn(translate_expr(alloc_registers(b4, 1), wc1.e,
                                                b4.next_reg),
                                 WhereGuard(b4.next_reg))
                  ELSE b4} :
       \E sp1 \in {[i \in 1..Len(set_pairs) |->
                      [idx |-> set_pairs[i].idx,
                       e |-> rewrite_target_cols_to_current_row(
                                 set_pairs[i].e, table, current_start,
                                 env.conflict_rowid_reg)]]} :
       \E b6 \in {EmitSet(b5, table, sp1, new_start)} :
       \E b7 \in {IF table.is_strict
                  THEN emit_insn(b6, [op |-> "TypeCheck", start_reg |-> new_start,
                                      count |-> num_cols])
                  ELSE b6} :
       \E b8 \in {IF keep_before
                  THEN EmitIndexes(b7, table, env, env.idx_cursors, before_start,
                                   new_start)
                  ELSE b7} :
       \E rec \in {b8.next_reg} :
       \E b9 \in {emit_insn(
                      emit_insn(alloc_registers(b8, 1),
                                MakeRecordInsn(new_start, num_cols, rec, NONE)),
                      [op |-> "Insert", cursor |-> env.tbl_cursor_id,
                       key_reg |-> env.conflict_rowid_reg, record_reg |-> rec,
                       table_name |-> table.name])} :
       \E after \in {IF env.cdc.some /\ env.cdc.has_after
                     THEN emit_cdc_patch_record(b9, table, new_start, rec,
                                                env.conflict_rowid_reg)
                     ELSE [b |-> b9, reg |-> -1]} :
       \E before \in {IF env.cdc.some /\ env.cdc.has_before
                      THEN emit_cdc_full_record(after.b, table, env.tbl_cursor_id,
                                                env.conflict_rowid_reg)
                      ELSE [b |-> after.b, reg |-> -1]} :
       \E b10 \in {IF env.cdc.some
                   THEN emit_cdc_insns(before.b, "UPDATE", env.cdc.cursor_id,
                                       env.conflict_rowid_reg, before.reg, after.reg,
                                       table.name)
                   ELSE before.b} :
       \E b11 \in {IF env.returning
                   THEN emit_returning_results(b10,
                            [rowid_register |-> env.conflict_rowid_reg,
                             columns_start_register |-> new_start,
                             num_columns |-> num_cols])
                   ELSE b10} :
       \E b12 \in {emit_insn(b11, [op |-> "Goto", target_pc |-> row_done_label])} :
          /\ program' = b12.program
          /\ next_reg' = b12.next_reg
          /\ set_pairs' = sp1
          /\ where_clause' = wc1
          /\ emitted' = Append(emitted,
                 [start_pc |-> Len(program) + 1, end_pc |-> Len(b12.program),
                  current_start |-> current_start, before_start |-> before_start,
                  new_start |-> new_start, num_cols |-> num_cols])
    /\ UNCHANGED << table, matchVars, setVars, rwVars, env, execVars >>

(* What a register of the upsert code holds when control enters it: null   *)
(* on the statement's first row, or what the code run for an earlier row   *)
(* left there.                                                             *)
LeftOver == { NULL, V("1") }

(* The conflict is found and control enters the upsert code of one         *)
(* invocation: the insertion's registers and the conflict rowid are set,   *)
(* every other register holds what was left in it.                         *)
EnterUpsert ==
    /\ pc.at = "idle"
    /\ \E k \in 1..Len(emitted) :
          pc' = [at |-> "insn", i |-> emitted[k].start_pc]
    /\ \E left \in LeftOver :
          regs' = [x \in 1..(next_reg - 1) |->
                      IF x < ConflictRowidReg(table)
                      THEN env.excluded[x - InsertionStart + 1]
                      ELSE IF x = ConflictRowidReg(table) THEN ConflictRowid
                      ELSE left]
    /\ UNCHANGED << table, matchVars, setVars, rwVars, emitVars, db, halt >>

(* The machine executes the instruction at pc.                             *)
Step ==
    /\ pc.at = "insn"
    /\ LET st == Execute(program[pc.i], [pc |-> pc, regs |-> regs, db |-> db,
                                         halt |-> halt])
       IN /\ pc' = st.pc
          /\ regs' = st.regs
          /\ db' = st.db
          /\ halt' = st.halt
    /\ UNCHANGED << table, matchVars, setVars, rwVars, emitVars >>

NextEmit == EmitUpsert \/ EnterUpsert \/ Step

SpecEmit == InitEmit /\ [][NextEmit]_vars

----------------------------------------------------------------------------
(* Properties of the resolver.                                             *)

TargetKeys == [i \in 1..Len(target.targets) |-> extract_target_key(target.targets[i])]
IndexSigs  == [i \in 1..Len(index.columns) |-> KeySig(index.columns[i], table)]

ExplicitTarget == target.some
AllTermsExtract == \A i \in 1..Len(target.targets) : TargetKeys[i].some

(* Some one-to-one pairing of the target terms with the index columns      *)
(* satisfies Pairs(term key, index signature).                             *)
PairedOneToOne(Pairs(_, _)) ==
    /\ Len(target.targets) = Len(index.columns)
    /\ \E p \in Permutations(1..Len(index.columns)) :
          \A i \in 1..Len(target.targets) : Pairs(TargetKeys[i], IndexSigs[p[i]])

(* A term and an index column are the same multiset entry: the same name,  *)
(* and the same collation unless the term leaves it unspecified.           *)
SameEntry(tk, sig) ==
    tk.col_name = sig.name /\ (tk.collate = NONE \/ tk.collate = sig.coll)

SameMultiset ==
    ExplicitTarget /\ index.unique /\ AllTermsExtract /\ PairedOneToOne(SameEntry)

(* C1: whenever the explicit target's terms form the same multiset of      *)
(* (name, collation-or-unspecified) as the unique index's columns,         *)
(* upsert_matches_index returns true, for every order of the terms and     *)
(* whichever same-named entry an uncollated term consumes.                 *)
C1_SameMultisetMatches ==
    (idx_result # "unset" /\ SameMultiset) => idx_result = "true"

(* What a term can consume in the loop: an entry of its name (compared     *)
(* without case) when it has no COLLATE, the entry of its exact signature  *)
(* when it has one.                                                        *)
CanConsume(tk, sig) ==
    /\ eq_ignore_ascii_case(tk.col_name, sig.name)
    /\ (tk.collate # NONE => (tk.col_name = sig.name /\ tk.collate = sig.coll))

(* C2: with an explicit target, upsert_matches_index returns true only if  *)
(* the index is unique, the term count equals the column count, every term *)
(* is accepted by extract_target_key and the terms pair one-to-one with    *)
(* the index's columns.                                                    *)
C2_MatchOnlyOnExactCover ==
    (ExplicitTarget /\ idx_result = "true") =>
        /\ index.unique
        /\ Len(target.targets) = Len(index.columns)
        /\ AllTermsExtract
        /\ PairedOneToOne(CanConsume)

C2_Witness ==
    /\ ExplicitTarget /\ idx_result = "true"
    /\ Len(target.targets) = 2
    /\ TargetKeys[1].collate # NONE

(* The effective collation of an index column as the claim words it.       *)
ClaimedEffectiveCollation(ic, tbl) ==
    IF ic.collation # NONE THEN ic.collation
    ELSE LET ci == get_column_by_name(tbl, ic.name)
         IN IF ci = -1 \/ tbl.columns[ci + 1].collation = NONE THEN "binary"
            ELSE tbl.columns[ci + 1].collation

(* C3: a term `col COLLATE X` consumes an index column exactly when the    *)
(* names agree and the column's effective collation is X, compared without *)
(* regard to case; a term without COLLATE consumes a column of its name    *)
(* whatever the collation.  Stated for one term against one column.        *)
C3_CollateAgainstEffectiveCollation ==
    ( /\ ExplicitTarget /\ index.unique
      /\ Len(target.targets) = 1 /\ Len(index.columns) = 1
      /\ AllTermsExtract
      /\ idx_result # "unset" ) =>
        ( idx_result = "true" <=>
            /\ TargetKeys[1].col_name = normalize_ident(index.columns[1].name)
            /\ \/ TargetKeys[1].collate = NONE
               \/ eq_ignore_ascii_case(TargetKeys[1].collate,
                                       ClaimedEffectiveCollation(index.columns[1], table)) )

(* A simple column reference: a bare, qualified or doubly qualified name,  *)
(* possibly inside one-element parentheses and COLLATE wrappers.           *)
RECURSIVE IsSimpleColumnRef(_)
IsSimpleColumnRef(e) ==
    CASE e.k \in {"Id", "Qualified", "DoublyQualified"} -> e.nk = "Ident"
      [] e.k = "Collate" -> e.nk = "Ident" /\ IsSimpleColumnRef(e.e)
      [] e.k = "Parenthesized" -> Len(e.v) = 1 /\ IsSimpleColumnRef(e.v[1])
      [] OTHER -> FALSE

RECURSIVE ReferencedColumn(_)
ReferencedColumn(e) ==
    CASE e.k = "Collate" -> ReferencedColumn(e.e)
      [] e.k = "Parenthesized" -> ReferencedColumn(e.v[1])
      [] OTHER -> e.s

(* The name of the table's primary-key / rowid-alias column, the implicit  *)
(* rowid column's when the table declares none.                            *)
PkName ==
    LET declared == {i \in 1..Len(table.columns) :
                        table.columns[i].is_rowid_alias \/ table.columns[i].primary_key}
    IN IF declared = {}
       THEN (IF ROWID_COLUMN.name = NONE THEN "" ELSE ROWID_COLUMN.name)
       ELSE table.columns[CHOOSE i \in declared : \A j \in declared : i <= j].name

(* C4: upsert_matches_pk returns true iff the target is omitted, or it has *)
(* exactly one term, a simple column reference whose column name equals,   *)
(* without regard to case, the pk column's name; a collation on the term   *)
(* is ignored.                                                             *)
C4_MatchesPkIff ==
    pk_result # "unset" =>
        ( pk_result = "true" <=>
            \/ ~ExplicitTarget
            \/ /\ Len(target.targets) = 1
               /\ IsSimpleColumnRef(target.targets[1])
               /\ eq_ignore_ascii_case(ReferencedColumn(target.targets[1]), PkName) )

C4_Witness ==
    /\ pk_result = "true" /\ ExplicitTarget
    /\ target.targets[1].k = "Parenthesized"
----------------------------------------------------------------------------
(* Properties of the SET-clause normalizer.                                *)

(* The assignments of the SET list in the order written: one (column name, *)
(* value) pair per named column.                                           *)
RECURSIVE Assignments(_)
Assignments(items) ==
    IF items = << >> THEN << >>
    ELSE [i \in 1..Len(Head(items).col_names) |->
            [name |-> Head(items).col_names[i], e |-> SetValues(Head(items))[i]]]
         \o Assignments(Tail(items))

ColumnExists(n) ==
    \E i \in 1..Len(table.columns) : eq_ignore_ascii_case(table.columns[i].name, n)

ColumnIndex(n) ==
    (CHOOSE i \in 1..Len(table.columns) :
        eq_ignore_ascii_case(table.columns[i].name, n)) - 1

LengthsMatch ==
    \A i \in 1..Len(set_items) :
        Len(set_items[i].col_names) = Len(SetValues(set_items[i]))

AllColumnsExist ==
    \A i \in 1..Len(set_items) :
        \A j \in 1..Len(set_items[i].col_names) : ColumnExists(set_items[i].col_names[j])

(* Positions in the SET list that assign column index c.                   *)
AssignsTo(c) ==
    {k \in 1..Len(Assignments(set_items)) :
        ColumnIndex(Assignments(set_items)[k].name) = c}

Least(S)    == CHOOSE x \in S : \A y \in S : x <= y
Greatest(S) == CHOOSE x \in S : \A y \in S : y <= x

(* C5: for a SET list whose items all name existing columns with matching  *)
(* lengths, the result has exactly one entry per assigned column, holding  *)
(* the expression of the last assignment to it, in the order of the        *)
(* columns' first occurrence in the SET list.                              *)
C5_LastWinsInFirstOccurrenceOrder ==
    (set_result.state \notin {"unset", "idle"} /\ LengthsMatch /\ AllColumnsExist) =>
        /\ set_result.state = "ok"
        /\ LET out == set_result.out
               asg == Assignments(set_items)
           IN /\ \A i, j \in 1..Len(out) : out[i].idx = out[j].idx => i = j
              /\ {out[i].idx : i \in 1..Len(out)}
                     = {ColumnIndex(asg[k].name) : k \in 1..Len(asg)}
              /\ \A i \in 1..Len(out) :
                    out[i].e = rewrite_excluded_in_expr(
                                   asg[Greatest(AssignsTo(out[i].idx))].e, table)
              /\ \A i, j \in 1..Len(out) :
                    i < j => Least(AssignsTo(out[i].idx)) < Least(AssignsTo(out[j].idx))

(* SET (b, A) = (..), .. = ..: column a is assigned twice, and b, which    *)
(* comes after a in the table, comes first in the result.                  *)
C5_Witness ==
    /\ set_result.state = "ok"
    /\ Len(set_items) = 2
    /\ Len(set_items[1].col_names) = 2
    /\ Len(set_result.out) = 2
    /\ set_result.out[1].idx > set_result.out[2].idx
    /\ Cardinality(AssignsTo(set_result.out[2].idx)) = 2
    /\ set_result.out[2].e # rewrite_excluded_in_expr(SetValues(set_items[1])[2], table)

(* C6: a SET item whose name list and value list differ in length, or that *)
(* names a column the table does not have, makes the function return an    *)
(* error and no mapping, with no instruction appended and no register      *)
(* allocated.                                                              *)
C6_MalformedSetIsAnError ==
    (set_result.state \notin {"unset", "idle"} /\ ~(LengthsMatch /\ AllColumnsExist)) =>
        /\ set_result.state = "err"
        /\ "out" \notin DOMAIN set_result
        /\ program = << >> /\ next_reg = FirstFreeReg(table)

(* The error arrives after an earlier item was already collected.          *)
C6_Witness ==
    /\ set_result.state = "err"
    /\ Len(set_items) = 2
    /\ Len(set_items[1].col_names) = Len(SetValues(set_items[1]))
    /\ \A j \in 1..Len(set_items[1].col_names) : ColumnExists(set_items[1].col_names[j])
    /\ program = << >>
----------------------------------------------------------------------------
(* Properties of the target-row rewrite.                                   *)

(* C7: the rewrite is idempotent: a further pass with the same arguments   *)
(* leaves the already rewritten expression as it is.                       *)
C7_RewriteIdempotent ==
    \A i \in 1..Len(passes) : i > 1 => passes[i] = passes[i - 1]

(* A second pass has run over an expression the first pass changed inside  *)
(* a composite.                                                            *)
C7_Witness ==
    /\ Len(passes) >= 2
    /\ expr0.k = "Binary"
    /\ passes[1] # expr0
    /\ passes[1].l.k = "Cast" /\ passes[1].l.e.k = "Register"

(* The sub-expressions of an expression, in a fixed order.                 *)
Children(e) ==
    CASE e.k \in {"Collate", "Cast", "IsNull", "NotNull", "Unary"} -> << e.e >>
      [] e.k \in {"InSelect", "InTable"} -> << e.lhs >>
      [] e.k = "Parenthesized" -> e.v
      [] e.k = "Binary" -> << e.l, e.r >>
      [] e.k = "Between" -> << e.lhs, e.start, e.end >>
      [] e.k = "Case" ->
            e.base \o << e.when_then_pairs[1][1], e.when_then_pairs[1][2] >>
                   \o e.else_expr
      [] e.k = "FunctionCall" -> e.args \o e.order_by \o e.filter_clause
      [] e.k = "InList" -> << e.lhs >> \o e.rhs
      [] e.k = "Like" -> << e.lhs, e.rhs >> \o e.escape
      [] OTHER -> << >>

(* The pairs (leaf of the original, what stands in its place afterwards).  *)
RECURSIVE LeafPairs(_, _)
LeafPairs(o, n) ==
    IF Children(o) = << >> \/ n.k # o.k \/ Len(Children(n)) # Len(Children(o))
    THEN {<< o, n >>}
    ELSE UNION {LeafPairs(Children(o)[i], Children(n)[i]) : i \in 1..Len(Children(o))}

(* A reference to a column of the target row: a bare name, or a name       *)
(* qualified by the target table's name.                                   *)
IsTargetRef(o) ==
    /\ o.k \in {"Id", "Qualified"}
    /\ o.nk = "Ident"
    /\ o.k = "Qualified" => eq_ignore_ascii_case(o.tbl, table.name)

IsRowidRef(o) == o.k = "RowId" \/ (IsTargetRef(o) /\ eq_ignore_ascii_case(o.s, "rowid"))

RefersToAlias(o) ==
    /\ IsTargetRef(o) /\ ColumnExists(o.s)
    /\ table.columns[ColumnIndex(o.s) + 1].is_rowid_alias

(* One pass maps every leaf as stated; aliasToRowid says which register a  *)
(* reference to the rowid-alias column is to become.                       *)
RewrittenAs(aliasToRowid) ==
    \A pr \in LeafPairs(expr0, passes[1]) :
        LET o == pr[1]
            n == pr[2]
        IN IF IsRowidRef(o) THEN n = Register(env.conflict_rowid_reg)
           ELSE IF IsTargetRef(o) /\ ColumnExists(o.s)
           THEN IF aliasToRowid /\ RefersToAlias(o)
                THEN n = Register(env.conflict_rowid_reg)
                ELSE n = Register(env.current_start + ColumnIndex(o.s))
           ELSE n = o

(* C8 as stated: the rowid pseudo-column and the rowid-alias column both   *)
(* become the conflict rowid register, any other column i becomes          *)
(* current_start + i, and other references are left unchanged.             *)
C8_AliasBecomesConflictRowid == Len(passes) >= 1 => RewrittenAs(TRUE)

(* C8 as amended: the rowid pseudo-column becomes the conflict rowid       *)
(* register; every column of the table, the rowid-alias column included,   *)
(* becomes current_start + its index; references qualified by excluded or  *)
(* by another table, and names that are no column, are left unchanged.     *)
C8_AliasBecomesCurrentSlot == Len(passes) >= 1 => RewrittenAs(FALSE)

C8_Witness ==
    /\ Len(passes) = 1
    /\ expr0.k = "Binary"
    /\ RefersToAlias(expr0.l) /\ expr0.l.k = "Qualified"
    /\ expr0.r.k = "RowId"
    /\ passes[1].l = Register(env.current_start)
    /\ passes[1].r = Register(env.conflict_rowid_reg)

----------------------------------------------------------------------------
(* Properties of the emitted program's execution.                          *)

Running == pc.at = "insn"

(* The invocation of emit_upsert whose code is executing.                  *)
Invocation ==
    CHOOSE k \in 1..Len(emitted) :
        pc.i >= emitted[k].start_pc /\ pc.i <= emitted[k].end_pc

(* Nothing has been deleted, inserted, captured or returned for the row.   *)
Untouched ==
    /\ db.log = << >> /\ db.cdc = << >> /\ db.out = << >>
    /\ db.idx = IndexesOf(table, env.idx_cursors, db.row)

AtLabel == [at |-> row_done_label]

(* The seek is about to run and the conflicting row is not there.          *)
SeekMisses ==
    /\ Running
    /\ program[pc.i].op = "SeekRowid"
    /\ ~(db.row.some /\ db.row.rowid = regs[env.conflict_rowid_reg])

(* The guard's branch is about to run and the predicate is false or null.  *)
GuardFails ==
    /\ Running
    /\ where_clause.some
    /\ program[pc.i].op = "IfNot"
    /\ Eval(where_clause.e, regs) \in {NULL, V("0")}

SkipStep ==
    (SeekMisses \/ GuardFails) =>
        /\ pc' = AtLabel
        /\ halt = NoneRec /\ halt' = NoneRec
        /\ Untouched /\ db' = db

(* A step of the code either goes on to the next instruction of the same   *)
(* invocation, aborts, or goes to the completion label; the invocation's   *)
(* last instruction is the jump to the label.                              *)
EndsAtLabel ==
    Running =>
        /\ program[emitted[Invocation].end_pc] =
               [op |-> "Goto", target_pc |-> row_done_label]
        /\ \/ pc' = AtLabel /\ halt' = NoneRec
           \/ pc'.at = "halted" /\ halt'.some
           \/ /\ pc' = [at |-> "insn", i |-> pc.i + 1]
              /\ pc.i + 1 <= emitted[Invocation].end_pc
              /\ halt' = NoneRec

(* C9: when the seek by the conflict rowid finds no row, or the WHERE      *)
(* guard is false or null, the next step is at the completion label with   *)
(* no error raised and no index delete, index insert, row insert, change   *)
(* record or RETURNING row executed; every step of the emitted code that   *)
(* does not abort stays inside the invocation or goes to that label, and   *)
(* the code's last instruction jumps to it.                                *)
C9_SkipsReachCompletionLabel == [][SkipStep /\ EndsAtLabel]_vars

(* The row is there, the guard is null, and the row is skipped although    *)
(* indexes, change capture and RETURNING are all in play.                  *)
C9_Witness ==
    /\ pc = AtLabel
    /\ db.row.some
    /\ where_clause.some /\ Eval(where_clause.e, regs) = NULL
    /\ env.idx_cursors # << >> /\ env.cdc.some /\ env.returning
    /\ Untouched /\ halt = NoneRec

(* SET pair j assigns a column that is NOT NULL and not a rowid alias.     *)
MustBeNotNull(j) ==
    LET col == table.columns[set_pairs[j].idx + 1]
    IN col.notnull /\ ~col.is_rowid_alias

(* Instruction i of the running invocation is SET pair j's write.          *)
IsSetWrite(i, j) ==
    /\ program[i].op = "Expr"
    /\ program[i].dest = emitted[Invocation].new_start + set_pairs[j].idx

NotNullError(j) ==
    [some |-> TRUE, err_code |-> SQLITE_CONSTRAINT_NOTNULL,
     description |-> << table.name, table.columns[set_pairs[j].idx + 1].name >>]

(* The write of a null leaves the row and its indexes alone and goes on    *)
(* to the next instruction.                                                *)
NullWriteStep(j) ==
    (/\ Running
     /\ IsSetWrite(pc.i, j)
     /\ regs'[program[pc.i].dest] = NULL) =>
        /\ pc' = [at |-> "insn", i |-> pc.i + 1]
        /\ db.row.some /\ Untouched /\ db' = db

(* The step after the write of a null is the halt.                         *)
NullHaltStep(j) ==
    (/\ Running
     /\ pc.i > emitted[Invocation].start_pc
     /\ IsSetWrite(pc.i - 1, j)
     /\ regs[program[pc.i - 1].dest] = NULL) =>
        /\ pc'.at = "halted"
        /\ halt' = NotNullError(j)
        /\ db.row.some /\ Untouched /\ db' = db

(* C10: once the row is found and the guard has passed, a SET assignment   *)
(* that writes null into a NOT NULL column that is not a rowid alias is    *)
(* followed at once by a halt with the NOT NULL constraint code and the    *)
(* description table.column, and up to and including the halt no index     *)
(* entry has been deleted or inserted and the table row is not rewritten.  *)
C10_NullIntoNotNullHalts ==
    [][\A j \in 1..Len(set_pairs) :
          MustBeNotNull(j) => NullWriteStep(j) /\ NullHaltStep(j)]_vars

(* The guard passed, b was set to null, and the run halted on t.b with     *)
(* the indexes on b still holding the stored row's entries.                *)
C10_Witness ==
    /\ pc.at = "halted"
    /\ halt.some
    /\ halt.err_code = SQLITE_CONSTRAINT_NOTNULL
    /\ halt.description = << "t", "b" >>
    /\ where_clause.some
    /\ env.idx_cursors # << >>
    /\ db.row.some /\ Untouched

----------------------------------------------------------------------------
(* The row images of an invocation.                                        *)

RECURSIVE RegistersRead(_)
RegistersRead(e) ==
    IF e.k = "Register" THEN {e.reg}
    ELSE UNION {RegistersRead(Children(e)[i]) : i \in 1..Len(Children(e))}

(* The registers of the row about to be inserted, which EXCLUDED reads.    *)
InsertionRange == InsertionStart..(ConflictRowidReg(table) - 1)

CurrentRange(k) ==
    {emitted[k].current_start + i : i \in 0..(emitted[k].num_cols - 1)}

(* The registers as they would stand had the running code just loaded the  *)
(* stored row into the range the SET and WHERE expressions name the        *)
(* target's columns by: that of the invocation that rewrote them.          *)
PreConflictRegs ==
    [x \in DOMAIN regs |->
        IF x \in CurrentRange(1)
        THEN RowValue(table, db.row, x - emitted[1].current_start)
        ELSE regs[x]]

AssignedBy(i) == {j \in 1..Len(set_pairs) : set_pairs[j].idx = i}

(* What column i (0-based) of the new image is to be: the assigned         *)
(* expression over the pre-conflict row, or the column's stored value.     *)
IntendedValue(i) ==
    IF AssignedBy(i) # {}
    THEN Eval(set_pairs[CHOOSE j \in AssignedBy(i) : TRUE].e, PreConflictRegs)
    ELSE RowValue(table, db.row, i)

AfterSnapshot ==
    /\ Running
    /\ pc.i > emitted[Invocation].start_pc + emitted[Invocation].num_cols

(* No instruction after the snapshot writes into the current range.        *)
CurrentKept ==
    AfterSnapshot => \A x \in CurrentRange(Invocation) : regs'[x] = regs[x]

(* An assignment writes its own register of the new image and no other.    *)
SetWritesOneRegister ==
    \A j \in 1..Len(set_pairs) :
        (Running /\ IsSetWrite(pc.i, j)) =>
            \A x \in DOMAIN regs \ {program[pc.i].dest} : regs'[x] = regs[x]

(* The guard's value is the predicate's over the pre-conflict row.         *)
GuardOverPreConflictRow ==
    (Running /\ program[pc.i].op = "IfNot") =>
        regs[program[pc.i].reg] = Eval(where_clause.e, PreConflictRegs)

(* The image the row write stores: every assigned column holds its         *)
(* expression's value over the pre-conflict row, every other column its    *)
(* stored value.                                                           *)
NewImageAtRowWrite ==
    (Running /\ program[pc.i].op = "Insert") =>
        \A i \in 0..(emitted[Invocation].num_cols - 1) :
            regs[emitted[Invocation].new_start + i] = IntendedValue(i)

(* C11: the WHERE guard and every SET right-hand side are evaluated        *)
(* against the pre-conflict row: after the snapshot nothing writes into    *)
(* the current range, an assignment writes only its own register of the    *)
(* new image, and when the row is written every assigned column holds the  *)
(* value of its expression over the stored row and the row to be inserted  *)
(* and every unassigned column its stored value.                           *)
C11_EvaluatedAgainstPreConflictRow ==
    [][/\ CurrentKept
       /\ SetWritesOneRegister
       /\ GuardOverPreConflictRow
       /\ NewImageAtRowWrite]_vars

----------------------------------------------------------------------------
(* Index maintenance and the row write.                                    *)

NumIndexes == Len(env.idx_cursors)

(* The entry of idx_cursors an instruction's cursor belongs to.            *)
IndexOfCursor(c) ==
    env.idx_cursors[CHOOSE n \in 1..NumIndexes : env.idx_cursors[n].cursor_id = c]

(* The key of index ic taken from the image starting at register start,   *)
(* with the conflict rowid last.                                           *)
ImageKey(ic, start) ==
    [i \in 1..Len(ic.columns) |->
        regs[start + get_column_by_name(table, ic.columns[i].name)]]
    \o << regs[env.conflict_rowid_reg] >>

NewImage ==
    [i \in 1..emitted[Invocation].num_cols |->
        regs[emitted[Invocation].new_start + (i - 1)]]

LogOps == [n \in 1..Len(db.log) |-> db.log[n].op]

(* The first n indexes are rewritten, each by a delete then an insert,     *)
(* and nothing else is done.                                               *)
RewrittenUpTo(n) ==
    /\ Len(db.log) = 2 * n
    /\ \A m \in 1..n :
          /\ db.log[2 * m - 1].op = "IdxDelete"
          /\ db.log[2 * m - 1].cursor_id = env.idx_cursors[m].cursor_id
          /\ db.log[2 * m].op = "IdxInsert"
          /\ db.log[2 * m].cursor_id = env.idx_cursors[m].cursor_id

(* The delete removes the stored row's entry, built from the before image. *)
IndexDeleteStep ==
    (Running /\ program[pc.i].op = "IdxDelete") =>
        LET ic  == IndexOfCursor(program[pc.i].cursor_id)
            key == ImageKey(ic, emitted[Invocation].before_start)
        IN /\ key = IndexKey(table, ic, db.row)
           /\ key \in db.idx[ic.cursor_id]
           /\ db'.idx = [db.idx EXCEPT ![ic.cursor_id] = @ \ {key}]
           /\ db'.row = db.row
           /\ \E n \in 1..NumIndexes :
                 /\ env.idx_cursors[n] = ic
                 /\ RewrittenUpTo(n - 1)

(* The insert follows its index's delete and adds the new image's entry.   *)
IndexInsertStep ==
    (Running /\ program[pc.i].op = "IdxInsert") =>
        LET ic  == IndexOfCursor(program[pc.i].cursor_id)
            key == ImageKey(ic, emitted[Invocation].new_start)
        IN /\ db.log # << >>
           /\ db.log[Len(db.log)].op = "IdxDelete"
           /\ db.log[Len(db.log)].cursor_id = ic.cursor_id
           /\ db'.idx = [db.idx EXCEPT ![ic.cursor_id] = @ \cup {key}]
           /\ db'.row = db.row

(* The row write comes after every index's rewrite, keeps the rowid and    *)
(* stores the whole new image; every index then holds the new row's entry  *)
(* and no other.                                                           *)
RowWriteStep ==
    (Running /\ program[pc.i].op = "Insert") =>
        /\ RewrittenUpTo(NumIndexes)
        /\ db.row.some
        /\ db'.row = [some |-> TRUE, rowid |-> db.row.rowid, vals |-> NewImage]
        /\ db'.idx = db.idx
        /\ \A n \in 1..NumIndexes :
              db.idx[env.idx_cursors[n].cursor_id] =
                  {IndexKey(table, env.idx_cursors[n], db'.row)}

(* A run that reached the label and changed anything wrote the row.        *)
CompletedUpdate ==
    (pc' = AtLabel /\ db'.log # << >>) =>
        \E n \in 1..Len(db'.log) : db'.log[n].op = "Insert"

(* C12: on a run that is neither skipped nor aborted, for every index      *)
(* cursor the entry keyed by the before image's index columns and the      *)
(* conflict rowid is deleted and then the entry keyed by the new image's   *)
(* columns and the same rowid is inserted, all of this before the row      *)
(* write; the row is written under the unchanged rowid with the whole new  *)
(* image, and each index then holds the new row's entry and no entry of    *)
(* the old row that differs from it.                                       *)
C12_IndexesRewrittenThenRow ==
    [][IndexDeleteStep /\ IndexInsertStep /\ RowWriteStep /\ CompletedUpdate]_vars

(* Two indexes were rewritten, the second to a key it did not hold, and    *)
(* the row was then written.                                               *)
C12_Witness ==
    /\ pc = AtLabel
    /\ NumIndexes = 2
    /\ Len(db.log) >= 5
    /\ db.log[5].op = "Insert"
    /\ db.log[3].key # db.log[4].key
    /\ db.idx[2] = {db.log[4].key}

----------------------------------------------------------------------------
(* Change capture.                                                         *)

CurrentImage ==
    [i \in 1..emitted[Invocation].num_cols |->
        regs[emitted[Invocation].current_start + (i - 1)]]

(* The one change record: UPDATE mode, the before-record the row as it was *)
(* at conflict time, the after-record the new image.                       *)
ChangeRecordStep ==
    (Running /\ program[pc.i].op = "CdcInsert") =>
        /\ db.cdc = << >>
        /\ Len(db'.cdc) = 1
        /\ db'.cdc[1].mode = "UPDATE"
        /\ env.cdc.has_before => db'.cdc[1].before = Rec(CurrentImage)
        /\ env.cdc.has_after => db'.cdc[1].after = Rec(NewImage)

(* C13: with change capture enabled with a before-image, the single        *)
(* UPDATE-mode change record has as its before-record the row's column     *)
(* values as they were at conflict time, equal to the current snapshot,    *)
(* and as its after-record the new image; the before-record does not       *)
(* reflect the row write of the same code.                                 *)
C13_BeforeImageIsPreConflictRow == [][ChangeRecordStep]_vars

----------------------------------------------------------------------------
(* Repeated invocations.                                                   *)

(* The WHERE and SET expressions translated by invocation k.               *)
TranslatedExprs(k) ==
    {program[i].expr :
        i \in {n \in emitted[k].start_pc..emitted[k].end_pc : program[n].op = "Expr"}}

(* The registers an expression reads for the target row's columns: all it  *)
(* reads but those of the row to be inserted.                              *)
TargetRegistersRead(e) == RegistersRead(e) \ InsertionRange

(* C14: over invocations of emit_upsert handed the same set_pairs and      *)
(* where_clause, every target-column register read by the WHERE and SET    *)
(* expressions an invocation translates is the conflict rowid register or  *)
(* lies in that invocation's own current range, never in an earlier        *)
(* invocation's.                                                           *)
C14_ReadsOwnCurrentRange ==
    \A k \in 1..Len(emitted) :
        \A e \in TranslatedExprs(k) :
            TargetRegistersRead(e) \subseteq
                CurrentRange(k) \cup {env.conflict_rowid_reg}

============================================================================
